---- MODULE Spec2Model ----
(***************************************************************************)
(* Model of the lint rule unicorn/no-negation-in-equality-check            *)
(* (crates/oxc_linter/src/rules/unicorn/no_negation_in_equality_check.rs). *)
(*                                                                         *)
(* The state is the arena of AST nodes of one parsed program, the          *)
(* diagnostics collected by the LintContext, and the bookkeeping of the    *)
(* traversal that invokes Rule::run once per node and per pass.  run is    *)
(* synchronous and has no suspension point, so one invocation is one       *)
(* atomic step; the order in which nodes are visited is left open, which   *)
(* covers every schedule of any number of workers.                         *)
(***************************************************************************)
EXTENDS Integers, Sequences, FiniteSets, TLC

\* Longest chain of unary operators in front of the left operand.
MaxChain == 3
\* Largest number of AST nodes of a program.
MaxNodes == 8
\* Number of traversal passes over the same tree.
MaxPasses == 2

(***************************************************************************)
(* oxc_syntax::operator                                                    *)
(***************************************************************************)
BinaryOperator ==
    {"Equality", "Inequality", "StrictEquality", "StrictInequality",
     "LessThan", "Instanceof"}

UnaryOperator == {"LogicalNot", "UnaryPlus"}

\* BinaryOperator::is_equality
is_equality(op) ==
    op \in {"Equality", "Inequality", "StrictEquality", "StrictInequality"}

\* BinaryOperator::equality_inverse_operator; "None" stands for Option::None
equality_inverse_operator(op) ==
    CASE op = "Equality" -> "Inequality"
      [] op = "Inequality" -> "Equality"
      [] op = "StrictEquality" -> "StrictInequality"
      [] op = "StrictInequality" -> "StrictEquality"
      [] OTHER -> "None"

\* BinaryOperator::as_str
as_str(op) ==
    CASE op = "Equality" -> "=="
      [] op = "Inequality" -> "!="
      [] op = "StrictEquality" -> "==="
      [] op = "StrictInequality" -> "!=="
      [] op = "LessThan" -> "<"
      [] op = "Instanceof" -> "instanceof"

(***************************************************************************)
(* The syntax trees handed to the rule.  Spans are byte offsets; every     *)
(* identifier and every prefix operator is one byte wide, a binary         *)
(* operator with its blanks takes three.                                   *)
(***************************************************************************)
Span(s, e) == [start |-> s, end |-> e]

IdentifierReference(s) == [kind |-> "Identifier", span |-> Span(s, s + 1)]

UnaryExpression(s, op, arg) ==
    [kind |-> "UnaryExpression", span |-> Span(s, arg.span.end),
     operator |-> op, argument |-> arg]

ParenthesizedExpression(s, e) ==
    [kind |-> "ParenthesizedExpression", span |-> Span(s, e.span.end + 1),
     expression |-> e]

BinaryExpression(l, op, r) ==
    [kind |-> "BinaryExpression", span |-> Span(l.span.start, r.span.end),
     left |-> l, operator |-> op, right |-> r]

\* The operands a chain of prefix operators is put in front of:
\*   foo      (!foo)      (!foo == bar)
BaseKinds == {"foo", "(!foo)", "(!foo == bar)"}

BaseOperand(b, s) ==
    CASE b = "foo" -> IdentifierReference(s)
      [] b = "(!foo)" ->
            ParenthesizedExpression(s,
                UnaryExpression(s + 1, "LogicalNot", IdentifierReference(s + 2)))
      [] b = "(!foo == bar)" ->
            ParenthesizedExpression(s,
                BinaryExpression(
                    UnaryExpression(s + 1, "LogicalNot", IdentifierReference(s + 2)),
                    "Equality",
                    IdentifierReference(s + 6)))

RECURSIVE PrefixChain(_, _, _)
PrefixChain(ops, b, s) ==
    IF ops = <<>> THEN BaseOperand(b, s)
    ELSE UnaryExpression(s, Head(ops), PrefixChain(Tail(ops), b, s + 1))

\* The right operands:   bar     !bar
RightKinds == {"bar", "!bar"}

RightOperand(r, s) ==
    IF r = "bar" THEN IdentifierReference(s)
    ELSE UnaryExpression(s, "LogicalNot", IdentifierReference(s + 1))

Chains == UNION {[1..k -> UnaryOperator] : k \in 0..MaxChain}

Program(ops, b, op, r) ==
    LET l == PrefixChain(ops, b, 0)
    IN  BinaryExpression(l, op, RightOperand(r, l.span.end + 3))

\* AstNodes: the arena holds one node per expression of the tree, in
\* the order the semantic builder enters them.
RECURSIVE AstNodes(_)
AstNodes(e) ==
    <<e>> \o
    CASE e.kind = "BinaryExpression" -> AstNodes(e.left) \o AstNodes(e.right)
      [] e.kind = "UnaryExpression" -> AstNodes(e.argument)
      [] e.kind = "ParenthesizedExpression" -> AstNodes(e.expression)
      [] OTHER -> <<>>

Programs ==
    {p \in {Program(ops, b, op, r) :
                ops \in Chains, b \in BaseKinds, op \in BinaryOperator, r \in RightKinds} :
        Len(AstNodes(p)) <= MaxNodes}

(***************************************************************************)
(* The rule                                                                *)
(***************************************************************************)
Message ==
    "eslint-plugin-unicorn(no-negation-in-equality-check): Negated expression is not allowed in equality check."

no_negation_in_equality_check_diagnostic(span0, suggested_operator) ==
    [severity |-> "warning",
     message |-> Message,
     help |-> "Remove the negation operator and use '"
                \o as_str(suggested_operator) \o "' instead.",
     labels |-> <<span0>>]

\* exit without the test of the left operand's operator (lines 59-61).
exit_any_unary(node) ==
    IF node.kind # "BinaryExpression" THEN "not_binary"
    ELSE IF node.left.kind # "UnaryExpression" THEN "left_not_unary"
    ELSE IF /\ node.left.argument.kind = "UnaryExpression"
            /\ node.left.argument.operator = "LogicalNot" THEN "nested_logical_not"
    ELSE IF ~is_equality(node.operator) THEN "not_equality"
    ELSE IF equality_inverse_operator(node.operator) = "None" THEN "no_inverse"
    ELSE "reported"

\* exit whose test of the nested negation looks one level too deep, so that
\* only !!!foo and longer chains are excluded (lines 63-69).
exit_nested_too_deep(node) ==
    IF node.kind # "BinaryExpression" THEN "not_binary"
    ELSE IF node.left.kind # "UnaryExpression" THEN "left_not_unary"
    ELSE IF node.left.operator # "LogicalNot" THEN "left_not_logical_not"
    ELSE IF /\ node.left.argument.kind = "UnaryExpression"
            /\ node.left.argument.operator = "LogicalNot"
            /\ node.left.argument.argument.kind = "UnaryExpression"
            /\ node.left.argument.argument.operator = "LogicalNot"
         THEN "nested_logical_not"
    ELSE IF ~is_equality(node.operator) THEN "not_equality"
    ELSE IF equality_inverse_operator(node.operator) = "None" THEN "no_inverse"
    ELSE "reported"

\* exit without the test of the equality family (lines 71-73).
exit_no_equality_test(node) ==
    IF node.kind # "BinaryExpression" THEN "not_binary"
    ELSE IF node.left.kind # "UnaryExpression" THEN "left_not_unary"
    ELSE IF node.left.operator # "LogicalNot" THEN "left_not_logical_not"
    ELSE IF /\ node.left.argument.kind = "UnaryExpression"
            /\ node.left.argument.operator = "LogicalNot" THEN "nested_logical_not"
    ELSE IF equality_inverse_operator(node.operator) = "None" THEN "no_inverse"
    ELSE "reported"

\* The place at which an invocation of run returns.
exit(node) ==
    IF node.kind # "BinaryExpression" THEN "not_binary"
    ELSE IF node.left.kind # "UnaryExpression" THEN "left_not_unary"
    ELSE IF node.left.operator # "LogicalNot" THEN "left_not_logical_not"
    ELSE IF /\ node.left.argument.kind = "UnaryExpression"
            /\ node.left.argument.operator = "LogicalNot" THEN "nested_logical_not"
    ELSE IF ~is_equality(node.operator) THEN "not_equality"
    ELSE IF equality_inverse_operator(node.operator) = "None" THEN "no_inverse"
    ELSE "reported"

\* run handing the node's own operator to the diagnostic (line 82).
run_same_operator(node, diagnostics) ==
    IF exit(node) = "reported"
    THEN Append(diagnostics,
                no_negation_in_equality_check_diagnostic(node.span, node.operator))
    ELSE diagnostics

\* run that tests no operator and falls back to the node's operator when
\* there is no inverse (lines 71-78).
run_unwrap_or(node, diagnostics) ==
    IF exit(node) \in {"reported", "not_equality", "no_inverse"}
    THEN Append(diagnostics,
                no_negation_in_equality_check_diagnostic(
                    node.span,
                    IF equality_inverse_operator(node.operator) = "None"
                    THEN node.operator
                    ELSE equality_inverse_operator(node.operator)))
    ELSE diagnostics

\* run labelling the negation instead of the comparison (line 81).
run_label_negation(node, diagnostics) ==
    IF exit(node) = "reported"
    THEN Append(diagnostics,
                no_negation_in_equality_check_diagnostic(
                    node.left.span, equality_inverse_operator(node.operator)))
    ELSE diagnostics

\* run reporting once for each negated operand of the comparison.
run_each_operand(node, diagnostics) ==
    IF exit(node) = "reported"
    THEN LET d == no_negation_in_equality_check_diagnostic(
                      node.span, equality_inverse_operator(node.operator))
         IN  IF node.right.kind = "UnaryExpression" /\ node.right.operator = "LogicalNot"
             THEN diagnostics \o <<d, d>>
             ELSE Append(diagnostics, d)
    ELSE diagnostics

\* run reporting only the first finding of a file.
run_first_only(node, diagnostics) ==
    IF exit(node) = "reported" /\ diagnostics = <<>>
    THEN Append(diagnostics,
                no_negation_in_equality_check_diagnostic(
                    node.span, equality_inverse_operator(node.operator)))
    ELSE diagnostics

\* run dropping a diagnostic the context already holds.
run_deduplicated(node, diagnostics) ==
    LET d == no_negation_in_equality_check_diagnostic(
                 node.span, equality_inverse_operator(node.operator))
    IN  IF exit(node) = "reported" /\ \A i \in DOMAIN diagnostics : diagnostics[i] # d
        THEN Append(diagnostics, d)
        ELSE diagnostics

\* Rule::run: the diagnostics of the context after the invocation on node,
\* diagnostics being those before it.
run(node, diagnostics) ==
    IF exit(node) = "reported"
    THEN Append(diagnostics,
                no_negation_in_equality_check_diagnostic(
                    node.span, equality_inverse_operator(node.operator)))
    ELSE diagnostics

VARIABLES
    nodes,      \* the arena of AST nodes of the program being linted
    ctx,        \* LintContext: the diagnostics reported so far
    pending,    \* ids of the nodes still to be visited in this pass
    pass,       \* number of the current traversal pass
    log         \* per node, the outcome of each invocation of run on it

vars == <<nodes, ctx, pending, pass, log>>

Init ==
    /\ \E p \in Programs : nodes = AstNodes(p)
    /\ ctx = <<>>
    /\ pending = DOMAIN nodes
    /\ pass = 1
    /\ log = [n \in DOMAIN nodes |-> <<>>]

\* One invocation of a run that also applies the suggestion to the tree.
RunAndFix(n) ==
    /\ n \in pending
    /\ ctx' = run(nodes[n], ctx)
    /\ log' = [log EXCEPT ![n] =
                  Append(@, [exit |-> exit(nodes[n]),
                             emitted |-> SubSeq(ctx', Len(ctx) + 1, Len(ctx'))])]
    /\ pending' = pending \ {n}
    /\ nodes' = IF exit(nodes[n]) = "reported"
                THEN [nodes EXCEPT ![n] =
                        BinaryExpression(@.left.argument,
                                         equality_inverse_operator(@.operator),
                                         @.right)]
                ELSE nodes
    /\ UNCHANGED pass

\* One invocation of run on node n.
Run(n) ==
    /\ n \in pending
    /\ ctx' = run(nodes[n], ctx)
    /\ log' = [log EXCEPT ![n] =
                  Append(@, [exit |-> exit(nodes[n]),
                             emitted |-> SubSeq(ctx', Len(ctx) + 1, Len(ctx'))])]
    /\ pending' = pending \ {n}
    /\ UNCHANGED <<nodes, pass>>

\* The traversal starts over on the same tree.
NextPass ==
    /\ pending = {}
    /\ pass < MaxPasses
    /\ pass' = pass + 1
    /\ pending' = DOMAIN nodes
    /\ UNCHANGED <<nodes, ctx, log>>

Next ==
    \/ \E n \in DOMAIN nodes : Run(n)
    \/ NextPass

Spec == Init /\ [][Next]_vars

(***************************************************************************)
(* Vocabulary of the properties                                            *)
(***************************************************************************)
EqualityFamily == {"Equality", "Inequality", "StrictEquality", "StrictInequality"}

\* The operator texts:  === gives !==, !== gives ===, == gives !=, != gives ==
InverseText(t) ==
    CASE t = "===" -> "!=="
      [] t = "!==" -> "==="
      [] t = "==" -> "!="
      [] t = "!=" -> "=="

IsStrict(op) == op \in {"StrictEquality", "StrictInequality"}

IsLogicalNot(e) == e.kind = "UnaryExpression" /\ e.operator = "LogicalNot"

\* Number of directly nested logical negations at the top of e.
RECURSIVE NegationDepth(_)
NegationDepth(e) ==
    IF IsLogicalNot(e) THEN 1 + NegationDepth(e.argument) ELSE 0

IsBinary(n) == nodes[n].kind = "BinaryExpression"

\* The invocations of run made so far, as pairs <<node id, number>>.
Invocations == UNION {{<<n, i>> : i \in DOMAIN log[n]} : n \in DOMAIN nodes}

Outcome(v) == log[v[1]][v[2]]

Range(seq) == {seq[i] : i \in DOMAIN seq}

TypeOK ==
    /\ pending \subseteq DOMAIN nodes
    /\ pass \in 1..MaxPasses
    /\ \A n \in DOMAIN nodes : Len(log[n]) = IF n \in pending THEN pass - 1 ELSE pass

(***************************************************************************)
(* C1: an equality comparison (===, !==, ==, !=) whose left operand is a   *)
(* logical negation of anything but a logical negation gets exactly one    *)
(* diagnostic from every invocation of run, and the help of that           *)
(* diagnostic names the inverse operator.                                  *)
(***************************************************************************)
SingleNegationOfEquality(e) ==
    /\ e.kind = "BinaryExpression"
    /\ e.operator \in EqualityFamily
    /\ IsLogicalNot(e.left)
    /\ ~IsLogicalNot(e.left.argument)

C1_SingleNegationReported ==
    \A v \in Invocations :
        SingleNegationOfEquality(nodes[v[1]]) =>
            /\ Len(Outcome(v).emitted) = 1
            /\ Outcome(v).emitted[1].help =
                   "Remove the negation operator and use '"
                       \o InverseText(as_str(nodes[v[1]].operator)) \o "' instead."

\* run has been invoked on  !+foo !== bar  or the like
C1_Witness ==
    \E v \in Invocations :
        /\ SingleNegationOfEquality(nodes[v[1]])
        /\ nodes[v[1]].operator = "StrictInequality"
        /\ nodes[v[1]].left.argument.kind = "UnaryExpression"

(***************************************************************************)
(* C2: a binary expression whose left operand is not a logical negation    *)
(* gets no diagnostic, whatever its operator and its right operand.        *)
(***************************************************************************)
C2_LeftNotNegatedSilent ==
    \A v \in Invocations :
        (IsBinary(v[1]) /\ ~IsLogicalNot(nodes[v[1]].left)) =>
            Outcome(v).emitted = <<>>

\* run has been invoked on  foo === !bar
C2_Witness ==
    \E v \in Invocations :
        /\ IsBinary(v[1])
        /\ nodes[v[1]].left.kind = "Identifier"
        /\ nodes[v[1]].operator = "StrictEquality"
        /\ IsLogicalNot(nodes[v[1]].right)

(***************************************************************************)
(* C3: a binary expression whose left operand is a chain of two or more    *)
(* directly nested logical negations gets no diagnostic, whatever its      *)
(* operator; a diagnostic is only given for a chain of exactly one.        *)
(***************************************************************************)
C3_NegationChainSilent ==
    \A v \in Invocations :
        IsBinary(v[1]) =>
            /\ NegationDepth(nodes[v[1]].left) >= 2 => Outcome(v).emitted = <<>>
            /\ Outcome(v).emitted # <<>> => NegationDepth(nodes[v[1]].left) = 1

\* run has been invoked on  !!foo == bar  and on  !!!foo === bar
C3_Witness ==
    /\ \E v \in Invocations :
        /\ IsBinary(v[1])
        /\ NegationDepth(nodes[v[1]].left) >= 2
        /\ nodes[v[1]].operator \in EqualityFamily
    /\ \E n \in DOMAIN nodes : IsBinary(n) /\ NegationDepth(nodes[n].left) = MaxChain

(***************************************************************************)
(* C4: a binary expression whose operator is not ===, !==, == or != gets   *)
(* no diagnostic, whatever its left operand.                               *)
(***************************************************************************)
C4_OtherOperatorSilent ==
    \A v \in Invocations :
        (IsBinary(v[1]) /\ nodes[v[1]].operator \notin EqualityFamily) =>
            Outcome(v).emitted = <<>>

\* run has been invoked on  !foo instanceof bar
C4_Witness ==
    \E v \in Invocations :
        /\ IsBinary(v[1])
        /\ nodes[v[1]].operator = "Instanceof"
        /\ NegationDepth(nodes[v[1]].left) = 1

(***************************************************************************)
(* C5: for each operator of the equality family that run has looked at,    *)
(* the inverse exists, is of the family, differs from the operator, has    *)
(* its strictness, and its own inverse is the operator; no invocation of   *)
(* run returns for want of an inverse.                                     *)
(***************************************************************************)
C5_InverseIsInvolution ==
    \A v \in Invocations :
        /\ Outcome(v).exit # "no_inverse"
        /\ (IsBinary(v[1]) /\ nodes[v[1]].operator \in EqualityFamily) =>
              LET op == nodes[v[1]].operator
                  inv == equality_inverse_operator(op)
              IN  /\ inv \in EqualityFamily
                  /\ inv # op
                  /\ IsStrict(inv) <=> IsStrict(op)
                  /\ equality_inverse_operator(inv) = op

\* run has got as far as the inverse of a loose operator, and has turned
\* down  !foo < bar  at the test of the equality family
C5_Witness ==
    /\ \E v \in Invocations :
        /\ Outcome(v).exit = "reported"
        /\ ~IsStrict(nodes[v[1]].operator)
    /\ \E v \in Invocations : Outcome(v).exit = "not_equality"

(***************************************************************************)
(* C6: every diagnostic run emits is a warning whose one label is the span *)
(* of the whole binary expression, not that of an operand.                 *)
(***************************************************************************)
C6_LabelIsComparisonSpan ==
    \A v \in Invocations :
        \A d \in Range(Outcome(v).emitted) :
            /\ d.severity = "warning"
            /\ d.labels = <<nodes[v[1]].span>>
            /\ d.labels[1] \notin {nodes[v[1]].left.span, nodes[v[1]].right.span,
                                   nodes[v[1]].left.argument.span}

\* a diagnostic has been emitted for a comparison that is not the whole
\* program
C6_Witness ==
    \E v \in Invocations :
        /\ v[1] # 1
        /\ Len(Outcome(v).emitted) = 1
        /\ Outcome(v).emitted[1].labels[1] # nodes[1].span

(***************************************************************************)
(* C7: every invocation of run ends with one diagnostic emitted or with    *)
(* none, never with more; on a node that is no binary expression it emits  *)
(* none; and the context never holds more diagnostics than there were      *)
(* invocations on binary expressions.                                      *)
(***************************************************************************)
C7_AtMostOneDiagnostic ==
    /\ \A v \in Invocations :
        /\ Len(Outcome(v).emitted) \in {0, 1}
        /\ Len(Outcome(v).emitted) = 1 <=> Outcome(v).exit = "reported"
        /\ ~IsBinary(v[1]) => Outcome(v).emitted = <<>>
    /\ Len(ctx) <= Cardinality({v \in Invocations : IsBinary(v[1])})

\* run has been invoked on  !foo == !bar  and on one of its operands
C7_Witness ==
    /\ \E v \in Invocations :
        /\ Outcome(v).exit = "reported"
        /\ IsLogicalNot(nodes[v[1]].right)
    /\ \E v \in Invocations : Outcome(v).exit = "not_binary"

(***************************************************************************)
(* C8: whatever the order of the invocations, each of them emits what run  *)
(* emits for its node with an empty context, and at the end of a pass the  *)
(* diagnostics of the context are those of the nodes taken one by one.     *)
(***************************************************************************)
C8_OrderIndependent ==
    /\ \A v \in Invocations : Outcome(v).emitted = run(nodes[v[1]], <<>>)
    /\ pending = {} =>
          Range(ctx) = UNION {Range(run(nodes[n], <<>>)) : n \in DOMAIN nodes}

\* a pass is over in which two comparisons were reported, the inner one
\* first
C8_Witness ==
    /\ pending = {}
    /\ Len(ctx) >= 2
    /\ ctx[1] # ctx[2]
    /\ ctx[1].labels[1] # nodes[1].span

(***************************************************************************)
(* C9: no step changes the tree, and an invocation of run changes the      *)
(* context by at most appending one diagnostic to it.                      *)
(***************************************************************************)
C9_TreeUnchanged ==
    [][/\ nodes' = nodes
       /\ \/ ctx' = ctx
          \/ Len(ctx') = Len(ctx) + 1 /\ SubSeq(ctx', 1, Len(ctx)) = ctx]_vars

\* a comparison has been reported, another node has been passed over, and
\* the arena is still the tree of its root
C9_Witness ==
    /\ \E v \in Invocations : Outcome(v).exit = "reported"
    /\ \E v \in Invocations : Outcome(v).exit = "left_not_unary"
    /\ nodes = AstNodes(nodes[1])

(***************************************************************************)
(* C10: two invocations of run on the same node have the same result:      *)
(* both emit nothing, or both emit the same diagnostic.                    *)
(***************************************************************************)
C10_SameResultTwice ==
    \A n \in DOMAIN nodes :
        \A i, j \in DOMAIN log[n] : log[n][i] = log[n][j]

\* run has reported the same comparison in two passes
C10_Witness ==
    \E n \in DOMAIN nodes :
        /\ Len(log[n]) >= 2
        /\ log[n][1].exit = "reported"
        /\ log[n][2].emitted # <<>>
====
